---- MODULE Spec2Model ----
(***************************************************************************)
(* Model of the BreadClan tournament bot: the process-wide tournament      *)
(* record, the bracket-pairing function and the four asynchronous          *)
(* handlers (POST /start-tournament, messageReactionAdd, /updatewinner,    *)
(* /endtournament), each split at the awaits where another handler can     *)
(* run.  The repository holds three revisions of the bot; the variable     *)
(* variant selects the revision a behaviour runs:                          *)
(*   "index"  src/index.js (src/unnamed/part_000 has the same core)        *)
(*   "eager"  src/unnamed/part_001 lines 1-711   (pre-resolved BYE,        *)
(*            first round generated inside the join handler)               *)
(*   "lazy2"  src/unnamed/part_001 lines 712-1747 (champion branch,        *)
(*            /endtournament, first round generated by the post update)    *)
(***************************************************************************)
EXTENDS Integers, Sequences, FiniteSets, Bags, TLC

\* ---------------------------------------------------------------- bounds
\* Discord users that can react or be named as a winner (conc. model).
NumUsers == 3
\* Handlers that may be suspended at an await at the same time.
MaxInFlight == 2
\* Registration messages the bot may post in one behaviour.
MaxMessages == 2
\* Longest contestant list handed to generatePairings on its own.
MaxContestants == 5
\* Largest roster a round is played from in the model of one tournament.
MaxRoster == 4

\* ------------------------------------------------------------- constants
Variants == {"index", "eager", "lazy2"}
\* details.name of the first, second, ... accepted create request.
TournamentNames == <<"T1", "T2", "T3", "T4">>
\* The text channel a create request names.
TheChannel == "c1"
\* JavaScript null / undefined for string-valued fields.
NULL == "<null>"
\* The sentinel username pushed as padding, and the champion placeholder.
BYE == "BYE"
CHAMPION == "CHAMPION"
\* Ids of the padding object { id: 'BYE' } and of the 'UNKNOWN' fallback.
ByeId == 0
UnknownId == 0 - 1
\* Usernames by user id.  Users 1 and 3 share a display name: Discord
\* usernames are not guaranteed unique by the code, only ids are.  No user
\* is called BYE or CHAMPION.
UserNames == <<"ann", "bob", "ann", "dan", "eve", "fay", "gus", "hal">>

UserName(u) == UserNames[u]
Player(u) == [id |-> u, username |-> UserName(u)]
ByePlayer == [id |-> ByeId, username |-> BYE]

\* ------------------------------------------------------- pure functions
\* the loop written with <= : a count that is a power of two is doubled
RECURSIVE PowLoopLe(_, _)
PowLoopLe(p, n) == IF p <= n THEN PowLoopLe(p * 2, n) ELSE p

nextPowerOfTwoLe(n) == PowLoopLe(1, n)

\* let nextPowerOfTwo = 1; while (nextPowerOfTwo < n) nextPowerOfTwo *= 2;
RECURSIVE PowLoop(_, _)
PowLoop(p, n) == IF p < n THEN PowLoop(p * 2, n) ELSE p

nextPowerOfTwo(n) == PowLoop(1, n)

\* The orders [...players].sort(() => 0.5 - Math.random()) can produce:
\* any permutation of the index set.
Shuffles(n) == {f \in [1..n -> 1..n] : \A i, j \in 1..n : f[i] = f[j] => i = j}

Permute(s, f) == [i \in 1..Len(s) |-> s[f[i]]]

\* the BYE entries put in front of the shuffled players
PadFront(s, k) == [i \in 1..k |-> ByePlayer] \o s

\* shuffledPlayers.push({ id: 'BYE', username: 'BYE' }), padding times
Pad(s, k) == s \o [i \in 1..k |-> ByePlayer]

\* every match left pending, the policy of the other revisions
InitialWinnerPending(v, a, b) == NULL

\* winner of a freshly generated match: only the "eager" revision
\* pre-resolves a match that has BYE in a slot.
InitialWinner(v, a, b) ==
    IF v = "eager"
    THEN IF a.username = BYE THEN b.username
         ELSE IF b.username = BYE THEN a.username ELSE NULL
    ELSE NULL

\* neighbours paired instead of the two ends
PairUpAdjacent(v, sp) ==
    [i \in 1..((Len(sp) + 1) \div 2) |->
        [matchId |-> i,
         p1 |-> sp[2 * i - 1].username,
         p2 |-> sp[IF 2 * i <= Len(sp) THEN 2 * i ELSE 2 * i - 1].username,
         winner |-> InitialWinner(v, sp[2 * i - 1],
                                  sp[IF 2 * i <= Len(sp) THEN 2 * i ELSE 2 * i - 1])]]

\* The loop for (i = 0; i < length / 2; i++): ceil(length/2) iterations.
PairUp(v, sp) ==
    [i \in 1..((Len(sp) + 1) \div 2) |->
        [matchId |-> i,
         p1 |-> sp[i].username,
         p2 |-> sp[Len(sp) + 1 - i].username,
         winner |-> InitialWinner(v, sp[i], sp[Len(sp) + 1 - i])]]

\* the shuffle and the padding done on the caller's array itself
CallerArrayInPlace(players, f) ==
    Pad(Permute(players, f), nextPowerOfTwo(Len(players)) - Len(players))

\* The caller's array after the call: [...players] copies it, and the sort
\* and the pushes of BYE act on the copy.
CallerArray(players, f) == players

\* Only "eager" and "lazy2" return [] for fewer than two players.
generatePairings(v, players, f) ==
    IF v # "index" /\ Len(players) < 2
    THEN <<>>
    ELSE LET shuffledPlayers == Permute(players, f)
             padding == nextPowerOfTwo(Len(players)) - Len(players)
         IN PairUp(v, Pad(shuffledPlayers, padding))

\* ------------------------------------------------------------------ state
VARIABLES
    variant,          \* which revision of the bot runs
    limit,            \* how many handlers may be suspended at once
    tournamentState,  \* the global record of the single tournament
    inflight,         \* bag of handlers suspended at an await
    msgCount,         \* create requests accepted so far (message ids handed out)
    champion,         \* username in the last "has won the entire tournament" followUp
    lastResult,       \* what the handler step taken last reported
    round,            \* rounds generated for the current tournament
    n0,               \* roster size the first round was generated from
    gpPlayers,        \* argument of a stand-alone generatePairings call
    gpResult          \* its result

vars == <<variant, limit, tournamentState, inflight, msgCount, champion,
          lastResult, round, n0, gpPlayers, gpResult>>

NoMessage == 0

IdleState ==
    [isActive |-> FALSE, channelId |-> NULL, messageId |-> NoMessage,
     participants |-> <<>>, details |-> NULL, bracket |-> <<>>]

\* A suspended handler: where it resumes, and the locals it still needs.
H(pc, user, str) == [pc |-> pc, user |-> user, str |-> str]

One(h) == SetToBag({h})

Suspended(pc) == {h \in BagToSet(inflight) : h.pc = pc}

\* An event is delivered only while fewer than limit handlers are suspended.
Room == BagCardinality(inflight) < limit

\* the check looks at the first participant only
InRosterFirst(ps, id) == Len(ps) > 0 /\ ps[1].id = id

\* participants.some(p => p.id === id)
InRoster(ps, id) == \E i \in 1..Len(ps) : ps[i].id = id

\* participants.find(p => p.username === name): index of the first hit, 0 = undefined
FindIdx(ps, name) ==
    IF \E i \in 1..Len(ps) : ps[i].username = name
    THEN CHOOSE i \in 1..Len(ps) :
            ps[i].username = name /\ \A j \in 1..(i - 1) : ps[j].username # name
    ELSE 0

\* bracket.map(m => participants.find(p => p.username === m.winner)).filter(p => p !== undefined)
FoundWinners(ts) ==
    LET idx == [i \in 1..Len(ts.bracket) |-> FindIdx(ts.participants, ts.bracket[i].winner)]
        hit == SelectSeq(idx, LAMBDA x : x # 0)
    IN [i \in 1..Len(hit) |-> ts.participants[hit[i]]]

\* bracket.map(m => m.winner).filter(w => w !== 'BYE'), then the objects built from them
NamedWinners(ts) ==
    LET names == SelectSeq([i \in 1..Len(ts.bracket) |-> ts.bracket[i].winner],
                           LAMBDA w : w # BYE)
    IN [i \in 1..Len(names) |->
          [id |-> IF FindIdx(ts.participants, names[i]) # 0
                  THEN ts.participants[FindIdx(ts.participants, names[i])].id
                  ELSE UnknownId,
           username |-> names[i]]]

\* written with some instead of every: one resolved match completes the round
SomeComplete(b) == \E i \in 1..Len(b) : b[i].winner # NULL

\* bracket.every(m => m.winner !== null)
AllComplete(b) == \A i \in 1..Len(b) : b[i].winner # NULL

\* the first match with !match.winner && (p1 === name || p2 === name), 0 = none
FirstOpen(b, name) ==
    IF \E i \in 1..Len(b) : b[i].winner = NULL /\ (b[i].p1 = name \/ b[i].p2 = name)
    THEN CHOOSE i \in 1..Len(b) :
            /\ b[i].winner = NULL /\ (b[i].p1 = name \/ b[i].p2 = name)
            /\ \A j \in 1..(i - 1) :
                 ~(b[j].winner = NULL /\ (b[j].p1 = name \/ b[j].p2 = name))
    ELSE 0

ChampionBracket(w) == <<[matchId |-> 1, p1 |-> w, p2 |-> CHAMPION, winner |-> w]>>

\* if (!messageId || !channelId) return;  otherwise suspend at the fetches
EnterPost(base, ts) ==
    IF ts.messageId = NoMessage \/ ts.channelId = NULL
    THEN base
    ELSE base (+) One(H("post_fetch", 0, NULL))

\* the condition under which updateTournamentPost builds the first round
LazyGenerates(v, ts) ==
    /\ Len(ts.bracket) = 0
    /\ Len(ts.participants) > 1
    /\ (v = "index" \/ ts.isActive)

Frame == UNCHANGED <<gpPlayers, gpResult, variant, limit>>

\* bookkeeping when generatePairings builds a round from list
NewRound(list) ==
    /\ round' = round + 1
    /\ n0' = IF round = 0 THEN Len(list) ELSE n0

SameRound == UNCHANGED <<round, n0>>

\* What a step leaves in lastResult.  Responses are followed only when
\* events are applied one at a time (limit = 1), where each belongs to the
\* one event being handled.
Out(code) == IF limit = 1 THEN code ELSE NULL

\* a handler step that only reports: the record and the handlers stay
Reports(code) ==
    /\ lastResult' = Out(code)
    /\ UNCHANGED <<tournamentState, inflight, msgCount, champion>>
    /\ SameRound

\* ------------------------------------------------- POST /start-tournament
\* the request is refused only once a bracket exists
AlreadyActiveStarted(ts) == ts.isActive /\ Len(ts.bracket) > 0

\* the reset forgets the roster and the bracket of the previous tournament
FreshRecordKeepsRoster(ts, chan, name) ==
    [ts EXCEPT !.isActive = TRUE, !.channelId = chan, !.details = name]

\* if (tournamentState.isActive) return res.status(400)...
AlreadyActive(ts) == ts.isActive

\* "1. Reset and Update Global State": messageId is left as it was.
FreshRecord(ts, chan, name) ==
    [ts EXCEPT !.isActive = TRUE,
               !.channelId = chan,
               !.details = name,
               !.participants = <<>>,
               !.bracket = <<>>]

\* The request arrives: the isActive check and the validation of the body,
\* up to the first await (the channel fetch).
CreateRequest(wellFormed) ==
    /\ Frame
    /\ Room
    /\ IF AlreadyActive(tournamentState)
       THEN Reports("TournamentAlreadyActive")
       ELSE IF ~wellFormed /\ variant # "eager"
       THEN Reports("MissingDetails")
       ELSE /\ msgCount < MaxMessages
            /\ msgCount' = msgCount + 1
            /\ inflight' = inflight (+)
                   One(H("create_fetch", msgCount + 1,
                         IF wellFormed THEN TournamentNames[msgCount + 1] ELSE NULL))
            /\ UNCHANGED <<tournamentState, champion, lastResult>>
            /\ SameRound

\* The channel fetch returns (ok) or the try block throws: on ok the
\* global state is reset and the handler suspends at channel.send.
CreateAfterFetch(h, ok) ==
    /\ Frame
    /\ h \in Suspended("create_fetch")
    /\ ok => h.str # NULL
    /\ UNCHANGED <<msgCount, champion>>
    /\ IF ok
       THEN /\ tournamentState' = FreshRecord(tournamentState, TheChannel, h.str)
            /\ inflight' = (inflight (-) One(h)) (+) One(H("create_post", h.user, h.str))
            /\ round' = 0
            /\ n0' = 0
            /\ UNCHANGED lastResult
       ELSE /\ inflight' = inflight (-) One(h)
            /\ lastResult' = Out("CreateFailed")
            /\ UNCHANGED tournamentState
            /\ SameRound

\* channel.send and message.react return (ok) or one of them throws.
CreateAfterPost(h, ok) ==
    /\ Frame
    /\ h \in Suspended("create_post")
    /\ inflight' = inflight (-) One(h)
    /\ UNCHANGED <<msgCount, champion>>
    /\ SameRound
    /\ IF ok
       THEN /\ tournamentState' = [tournamentState EXCEPT !.messageId = h.user]
            /\ lastResult' = Out("Created")
       ELSE /\ lastResult' = Out("CreateFailed")
            /\ UNCHANGED tournamentState

\* ---------------------------------------------------- messageReactionAdd
\* A reaction by user u on message msg arrives: the guards, and in "eager"
\* the membership check, up to the await of client.users.fetch.  Reactions
\* of bots or with another emoji leave by the same return as reactions on a
\* message that is not the registration post, the case delivered here.
ReactionAdd(u, msg) ==
    /\ Frame
    /\ Room
    /\ IF msg # tournamentState.messageId \/ ~tournamentState.isActive
       THEN Reports("Ignored")
       ELSE IF variant = "eager" /\ InRoster(tournamentState.participants, u)
       THEN Reports("AlreadyJoined")
       ELSE /\ inflight' = inflight (+) One(H("join_fetch", u, NULL))
            /\ UNCHANGED <<tournamentState, msgCount, champion, lastResult>>
            /\ SameRound

\* The user fetch returns: the push (after the membership check in "index"
\* and "lazy2"), the first round in "eager", and the call of
\* updateTournamentPost up to its fetches.
JoinAfterFetch(h, ok) ==
    /\ Frame
    /\ h \in Suspended("join_fetch")
    /\ UNCHANGED <<msgCount, champion>>
    /\ LET ps == tournamentState.participants
           pushed == [tournamentState EXCEPT !.participants = Append(ps, Player(h.user))]
           starts == variant = "eager" /\ Len(ps) + 1 >= 2 /\ Len(tournamentState.bracket) = 0
       IN IF ~ok
          THEN /\ inflight' = inflight (-) One(h)
               /\ lastResult' = Out("JoinFailed")
               /\ UNCHANGED tournamentState
               /\ SameRound
          ELSE IF variant # "eager" /\ InRoster(ps, h.user)
          THEN /\ inflight' = inflight (-) One(h)
               /\ lastResult' = Out("AlreadyJoined")
               /\ UNCHANGED tournamentState
               /\ SameRound
          ELSE /\ IF starts
                  THEN /\ \E f \in Shuffles(Len(ps) + 1) :
                            tournamentState' =
                                [pushed EXCEPT !.bracket =
                                    generatePairings(variant, pushed.participants, f),
                                               !.participants =
                                    CallerArray(pushed.participants, f)]
                       /\ NewRound(pushed.participants)
                  ELSE /\ tournamentState' = pushed
                       /\ SameRound
               /\ inflight' = EnterPost(inflight (-) One(h), pushed)
               /\ lastResult' = Out("Joined")

\* ------------------------------------------------------- /endtournament
\* Registered in "eager" and "lazy2" only.  The reset is synchronous and
\* the updateTournamentPost that follows returns at once (messageId null).
EndTournament(isAdmin) ==
    /\ Frame
    /\ Room
    /\ variant # "index"
    /\ IF ~isAdmin
       THEN Reports("NotAdmin")
       ELSE IF ~tournamentState.isActive
       THEN Reports("NoActiveTournament")
       ELSE /\ tournamentState' = IdleState
            /\ round' = 0
            /\ n0' = 0
            /\ inflight' = EnterPost(inflight, IdleState)
            /\ lastResult' = Out("Reset")
            /\ UNCHANGED <<msgCount, champion>>

\* -------------------------------------------------------- /updatewinner
\* the guards without the isActive test
RefusalNoActiveTest(isAdmin) ==
    IF variant # "index" /\ ~isAdmin THEN "NotAdmin"
    ELSE IF variant # "index"
            /\ (Len(tournamentState.participants) < 2 \/ Len(tournamentState.bracket) = 0)
    THEN "NotStarted"
    ELSE ""

\* why the command is refused before the bracket is searched, or "" if not
Refusal(isAdmin) ==
    IF variant # "index" /\ ~isAdmin THEN "NotAdmin"
    ELSE IF ~tournamentState.isActive THEN "NoActiveTournament"
    ELSE IF variant # "index"
            /\ (Len(tournamentState.participants) < 2 \/ Len(tournamentState.bracket) = 0)
    THEN "NotStarted"
    ELSE ""

\* the winner written into the first unresolved match, whoever is in it
RecordWinnerFirstOpen(ts, name) ==
    IF \A i \in 1..Len(ts.bracket) : ts.bracket[i].winner # NULL
    THEN ts
    ELSE [ts EXCEPT !.bracket[CHOOSE i \in 1..Len(ts.bracket) :
                                 /\ ts.bracket[i].winner = NULL
                                 /\ \A j \in 1..(i - 1) : ts.bracket[j].winner # NULL].winner = name]

\* the loop over the bracket: match.winner = winnerUsername in the first
\* match found, the record as it is when none is found
RecordWinner(ts, name) ==
    IF FirstOpen(ts.bracket, name) = 0
    THEN ts
    ELSE [ts EXCEPT !.bracket[FirstOpen(ts.bracket, name)].winner = name]

\* The command arrives: the guards, the search of the bracket and the
\* recording of the winner, up to the await of interaction.reply.
UpdateWinner(u, isAdmin) ==
    /\ Frame
    /\ Room
    /\ LET k == FirstOpen(tournamentState.bracket, UserName(u))
       IN IF Refusal(isAdmin) # ""
          THEN Reports(Refusal(isAdmin))
          ELSE IF k = 0
          THEN Reports("NoActiveMatchForPlayer")
          ELSE /\ tournamentState' = RecordWinner(tournamentState, UserName(u))
               /\ inflight' = inflight (+) One(H("decl_reply", 0, NULL))
               /\ lastResult' = Out("MatchRecorded")
               /\ UNCHANGED <<msgCount, champion>>
               /\ SameRound

\* the contestants the next round is built from
RoundWinners(v, ts) == IF v = "eager" THEN NamedWinners(ts) ELSE FoundWinners(ts)

\* The reply returns: the round-completion check.  "index" regenerates
\* whenever a round of more than one match is complete and announces
\* bracket[0].p1 when the new round has one match; "eager" and "lazy2"
\* branch on the number of winners.
DeclareAfterReply(h, ok) ==
    /\ Frame
    /\ h \in Suspended("decl_reply")
    /\ UNCHANGED msgCount
    /\ LET ts == tournamentState
           rest == inflight (-) One(h)
           ws == RoundWinners(variant, ts)
           regen == IF variant = "index"
                    THEN AllComplete(ts.bracket) /\ Len(ts.bracket) > 1
                    ELSE AllComplete(ts.bracket) /\ Len(ws) > 1
           won == variant # "index" /\ AllComplete(ts.bracket) /\ Len(ws) = 1
       IN IF ~ok
          THEN /\ inflight' = rest
               /\ lastResult' = Out("ReplyFailed")
               /\ UNCHANGED <<tournamentState, champion>>
               /\ SameRound
          ELSE IF regen
          THEN /\ \E f \in Shuffles(Len(ws)) :
                    tournamentState' = [ts EXCEPT !.bracket = generatePairings(variant, ws, f)]
               /\ NewRound(ws)
               /\ lastResult' = Out("RoundAdvanced")
               /\ IF variant = "index"
                  THEN IF Len(tournamentState'.bracket) = 1
                       THEN /\ champion' = tournamentState'.bracket[1].p1
                            /\ inflight' = rest (+)
                                   One(H("decl_followup", 0, tournamentState'.bracket[1].p1))
                       ELSE /\ inflight' = EnterPost(rest, tournamentState')
                            /\ UNCHANGED champion
                  ELSE /\ inflight' = rest (+) One(H("decl_followup", 0, NULL))
                       /\ UNCHANGED champion
          ELSE IF won
          THEN /\ champion' = ws[1].username
               /\ inflight' = rest (+) One(H("decl_followup", 0, ws[1].username))
               /\ lastResult' = Out("ChampionAnnounced")
               /\ UNCHANGED tournamentState
               /\ SameRound
          ELSE /\ inflight' = EnterPost(rest, ts)
               /\ lastResult' = Out("RoundOpen")
               /\ UNCHANGED <<tournamentState, champion>>
               /\ SameRound

\* The followUp returns: after the champion announcement the tournament is
\* marked inactive ("eager" and "lazy2" also replace the bracket by the
\* champion entry); then updateTournamentPost is called.
DeclareAfterFollowUp(h, ok) ==
    /\ Frame
    /\ h \in Suspended("decl_followup")
    /\ UNCHANGED <<msgCount, champion>>
    /\ SameRound
    /\ LET ts == tournamentState
           rest == inflight (-) One(h)
           done == IF h.str = NULL THEN ts
                   ELSE IF variant = "index" THEN [ts EXCEPT !.isActive = FALSE]
                   ELSE [ts EXCEPT !.isActive = FALSE, !.bracket = ChampionBracket(h.str)]
       IN IF ~ok
          THEN /\ inflight' = rest
               /\ lastResult' = Out("FollowUpFailed")
               /\ UNCHANGED tournamentState
          ELSE /\ tournamentState' = done
               /\ inflight' = EnterPost(rest, done)
               /\ lastResult' = Out(IF h.str = NULL THEN "NextRoundAnnounced" ELSE "TournamentWon")

\* -------------------------------------------------- updateTournamentPost
\* The channel and message fetches return (ok) or throw (caught and
\* logged): on ok the first round is generated if there is none yet.
PostAfterFetch(h, ok) ==
    /\ Frame
    /\ h \in Suspended("post_fetch")
    /\ inflight' = inflight (-) One(h)
    /\ UNCHANGED <<msgCount, champion>>
    /\ LET ts == tournamentState
       IN IF ok /\ LazyGenerates(variant, ts)
          THEN /\ \E f \in Shuffles(Len(ts.participants)) :
                    tournamentState' =
                        [ts EXCEPT !.bracket = generatePairings(variant, ts.participants, f),
                                   !.participants = CallerArray(ts.participants, f)]
               /\ NewRound(ts.participants)
               /\ lastResult' = Out("PostUpdated")
          ELSE /\ lastResult' = Out(IF ok THEN "PostUpdated" ELSE "PostFailed")
               /\ UNCHANGED tournamentState
               /\ SameRound

\* ---------------------------------------------------------- specification
Users == 1..NumUsers
MessageIds == 1..MaxMessages

InitCommon ==
    /\ variant \in Variants
    /\ tournamentState = IdleState
    /\ inflight = EmptyBag
    /\ msgCount = 0
    /\ champion = NULL
    /\ lastResult = NULL
    /\ round = 0
    /\ n0 = 0
    /\ gpPlayers = <<>>
    /\ gpResult = <<>>

Init == InitCommon /\ limit = MaxInFlight

Next ==
    \/ \E wellFormed \in BOOLEAN : CreateRequest(wellFormed)
    \/ \E h \in BagToSet(inflight), ok \in BOOLEAN : CreateAfterFetch(h, ok)
    \/ \E h \in BagToSet(inflight), ok \in BOOLEAN : CreateAfterPost(h, ok)
    \/ \E u \in Users, msg \in MessageIds : ReactionAdd(u, msg)
    \/ \E h \in BagToSet(inflight), ok \in BOOLEAN : JoinAfterFetch(h, ok)
    \/ \E isAdmin \in BOOLEAN : EndTournament(isAdmin)
    \/ \E u \in Users, isAdmin \in BOOLEAN : UpdateWinner(u, isAdmin)
    \/ \E h \in BagToSet(inflight), ok \in BOOLEAN : DeclareAfterReply(h, ok)
    \/ \E h \in BagToSet(inflight), ok \in BOOLEAN : DeclareAfterFollowUp(h, ok)
    \/ \E h \in BagToSet(inflight), ok \in BOOLEAN : PostAfterFetch(h, ok)

Spec == Init /\ [][Next]_vars

\* generatePairings on its own, applied once to a list of distinct players.
ContestantLists ==
    UNION {{[i \in 1..n |-> Player(g[i])] :
              g \in {h \in [1..n -> 1..MaxContestants] :
                        \A i, j \in 1..n : h[i] = h[j] => i = j}} :
           n \in 0..MaxContestants}

InitGP ==
    /\ variant \in Variants
    /\ limit = 0
    /\ tournamentState = IdleState
    /\ inflight = EmptyBag
    /\ msgCount = 0
    /\ champion = NULL
    /\ lastResult = NULL
    /\ round = 0
    /\ n0 = 0
    /\ gpPlayers \in ContestantLists
    /\ gpResult = <<>>

\* gpResult = <<r>> once the call has returned r
GenerateRound ==
    /\ gpResult = <<>>
    /\ \E f \in Shuffles(Len(gpPlayers)) :
          /\ gpResult' = <<generatePairings(variant, gpPlayers, f)>>
          /\ gpPlayers' = CallerArray(gpPlayers, f)
    /\ UNCHANGED <<variant, limit, tournamentState, inflight, msgCount, champion,
                   lastResult, round, n0>>

NextGP == GenerateRound

SpecGP == InitGP /\ [][NextGP]_vars

\* The same handlers with events applied one at a time: a new event is
\* delivered only when no handler is suspended.
InitSeq == InitCommon /\ limit = 1

SpecSeq == InitSeq /\ [][Next]_vars

\* One tournament from the end of its registration: the record as the join
\* of the last of 2..MaxRoster players leaves it when the post updates of the
\* earlier joins failed at their fetches (no round generated yet), with the
\* post update of that join suspended at its fetches.  "eager" generates
\* the first round inside the second join and never holds such a record.
Rosters == {r \in ContestantLists : Len(r) >= 2 /\ Len(r) <= MaxRoster}

InitRound ==
    /\ variant \in {"index", "lazy2"}
    /\ limit = 1
    /\ \E r \in Rosters :
          tournamentState = [isActive |-> TRUE, channelId |-> TheChannel, messageId |-> 1,
                             participants |-> r, details |-> TournamentNames[1],
                             bracket |-> <<>>]
    /\ inflight = One(H("post_fetch", 0, NULL))
    /\ msgCount = 1
    /\ champion = NULL
    /\ lastResult = "Joined"
    /\ round = 0
    /\ n0 = 0
    /\ gpPlayers = <<>>
    /\ gpResult = <<>>

\* the commands name roster members; no reaction and no request arrives
NextRound ==
    \/ \E u \in {tournamentState.participants[i].id :
                     i \in 1..Len(tournamentState.participants)},
          isAdmin \in BOOLEAN : UpdateWinner(u, isAdmin)
    \/ \E h \in BagToSet(inflight), ok \in BOOLEAN : DeclareAfterReply(h, ok)
    \/ \E h \in BagToSet(inflight), ok \in BOOLEAN : DeclareAfterFollowUp(h, ok)
    \/ \E h \in BagToSet(inflight), ok \in BOOLEAN : PostAfterFetch(h, ok)

SpecRound == InitRound /\ [][NextRound]_vars

\* ================================================================ claims
\* ------------------------------------------------ vocabulary of the claims
Range(q) == {q[i] : i \in 1..Len(q)}

\* the bag of the entries of a sequence
SeqBag(q) == [x \in Range(q) |-> Cardinality({i \in 1..Len(q) : q[i] = x})]

\* smallest power of two >= n, by search
Ceil2(n) ==
    LET pows == {2 ^ k : k \in 0..(n + 1)}
    IN CHOOSE p \in pows : p >= n /\ \A q \in pows : q >= n => p <= q

\* smallest k with 2^k >= n
CeilLog2(n) == CHOOSE k \in 0..(n + 1) : 2 ^ k >= n /\ \A j \in 0..(n + 1) : 2 ^ j >= n => k <= j

\* the slots of a round, p1 of every match and then p2 of every match
Slots(b) == [i \in 1..Len(b) |-> b[i].p1] \o [i \in 1..Len(b) |-> b[i].p2]

ByeSlots(b) == Cardinality({i \in 1..Len(Slots(b)) : Slots(b)[i] = BYE})

RosterNames(ps) == {ps[i].username : i \in 1..Len(ps)}
RosterIds(ps) == {ps[i].id : i \in 1..Len(ps)}

Quiet == inflight = EmptyBag

GpReturned == Len(gpResult) = 1

\* C1: for every contestant list of size n >= 2 the round returned by
\* generatePairings has ceil2(n)/2 matches, its slots hold every contestant
\* exactly once, and the remaining ceil2(n) - n slots hold BYE.
C1_RoundShape ==
    (GpReturned /\ Len(gpPlayers) >= 2) =>
        LET n == Len(gpPlayers)
            r == gpResult[1]
        IN /\ 2 * Len(r) = Ceil2(n)
           /\ SeqBag(Slots(r)) =
                  SeqBag([i \in 1..Ceil2(n) |->
                            IF i <= n THEN gpPlayers[i].username ELSE BYE])
           /\ ByeSlots(r) = Ceil2(n) - n

\* a list of five contestants has been paired: four matches, three BYE slots
C1_Witness ==
    /\ GpReturned
    /\ Len(gpPlayers) = 5
    /\ Len(gpResult[1]) = 4
    /\ ByeSlots(gpResult[1]) = 3

AllResolved(b) == \A i \in 1..Len(b) : b[i].winner # NULL

\* the distinct non-BYE winners of a round
DistinctWinners(b) == {b[i].winner : i \in 1..Len(b)} \ {BYE}

\* the round-completion check of an /updatewinner whose reply succeeded
DeclaredStep == \E h \in Suspended("decl_reply") : DeclareAfterReply(h, TRUE)

\* the step after a champion announcement that was delivered
CrownedStep ==
    \E h \in Suspended("decl_followup") : h.str # NULL /\ DeclareAfterFollowUp(h, TRUE)

Announcing(bag) == {h \in BagToSet(bag) : h.pc = "decl_followup" /\ h.str # NULL}

\* C2: when a successful /updatewinner leaves every match of the round with
\* a winner, one distinct non-BYE winner is announced as champion and the
\* tournament then becomes inactive; more than one make the next round, built
\* from exactly those winners, and the tournament stays active.
C2_RoundCompletion ==
    /\ [][(DeclaredStep /\ Len(tournamentState.bracket) > 0
                        /\ AllResolved(tournamentState.bracket)) =>
            LET dw == DistinctWinners(tournamentState.bracket)
            IN /\ Cardinality(dw) = 1 =>
                     /\ champion' \in dw
                     /\ \E h \in Announcing(inflight') : h.str \in dw
               /\ Cardinality(dw) > 1 =>
                     /\ tournamentState'.isActive
                     /\ round' = round + 1
                     /\ Range(Slots(tournamentState'.bracket)) \ {BYE} = dw]_vars
    /\ [][CrownedStep => ~tournamentState'.isActive]_vars

\* C3: from a first round generated from a roster of n >= 2, the tournament
\* ends with the resolution of round ceil(log2(n)): the champion is announced
\* when that round is complete, and no earlier round's completion announces one.
C3_Convergence ==
    [][(DeclaredStep /\ n0 >= 2 /\ Len(tournamentState.bracket) > 0
                     /\ AllResolved(tournamentState.bracket)) =>
          IF round = CeilLog2(n0)
          THEN Announcing(inflight') # {}
          ELSE /\ round < CeilLog2(n0)
               /\ round' = round + 1
               /\ Announcing(inflight') = {}]_vars

\* C4: with roster [A, B, C] the first round has 2 matches and one BYE slot;
\* the round after it has 1 match; once the tournament is over that match is
\* resolved and its winner is the champion.
C4_ThreePlayers ==
    /\ (Quiet /\ tournamentState.isActive /\ round = 1
              /\ Len(tournamentState.participants) = 3) =>
           /\ Len(tournamentState.bracket) = 2
           /\ ByeSlots(tournamentState.bracket) = 1
    /\ (n0 = 3 /\ round = 2) => Len(tournamentState.bracket) = 1
    /\ (n0 = 3 /\ round = 2 /\ ~tournamentState.isActive) =>
           /\ tournamentState.bracket[1].winner # NULL
           /\ champion = tournamentState.bracket[1].winner

\* C5: when the champion has been announced and the tournament marked
\* completed, the champion is a roster member, is the recorded winner of a
\* match of the bracket, and no match of the bracket is unresolved.
C5_ChampionIsFinalWinner ==
    lastResult = "TournamentWon" =>
        /\ champion \in RosterNames(tournamentState.participants)
        /\ AllResolved(tournamentState.bracket)
        /\ \E i \in 1..Len(tournamentState.bracket) :
               tournamentState.bracket[i].winner = champion

\* a step of a join handler for an id the roster already holds
RepeatJoinStep ==
    \/ \E u \in Users, msg \in MessageIds :
          /\ u \in RosterIds(tournamentState.participants)
          /\ ReactionAdd(u, msg)
    \/ \E h \in Suspended("join_fetch"), ok \in BOOLEAN :
          /\ h.user \in RosterIds(tournamentState.participants)
          /\ JoinAfterFetch(h, ok)

\* C6: with events applied one after the other, a join for an id that is
\* already in the roster leaves the roster (size and order) and the current
\* round as they were.
C6_JoinIdempotent ==
    [][RepeatJoinStep =>
          /\ tournamentState'.participants = tournamentState.participants
          /\ tournamentState'.bracket = tournamentState.bracket]_vars

\* a repeated join has been answered while a round is under way
C6_Witness ==
    /\ lastResult = "AlreadyJoined"
    /\ Len(tournamentState.participants) >= 2
    /\ Len(tournamentState.bracket) > 0

\* C7: the roster never holds two entries with the same player id.
C7_UniqueIds ==
    Cardinality(RosterIds(tournamentState.participants)) = Len(tournamentState.participants)

\* C8: a create request that arrives while a tournament is active is answered
\* TournamentAlreadyActive and leaves the whole record as it was.
C8_CreateRefused ==
    [][(tournamentState.isActive /\ \E wellFormed \in BOOLEAN : CreateRequest(wellFormed)) =>
          /\ tournamentState' = tournamentState
          /\ lastResult' = "TournamentAlreadyActive"]_vars

\* a create request has been refused while a round is under way
C8_Witness ==
    /\ lastResult = "TournamentAlreadyActive"
    /\ tournamentState.isActive
    /\ Len(tournamentState.bracket) > 0
    /\ tournamentState.messageId # NoMessage

\* C9: a create request performs its state update only when no tournament is
\* active, so the record of the tournament created first is not overwritten.
C9_SingleLiveTournament ==
    [][(\E h \in Suspended("create_fetch") : CreateAfterFetch(h, TRUE)) =>
          ~tournamentState.isActive]_vars

\* C10: when a create request has succeeded the tournament is active with an
\* empty roster and an empty bracket, whatever the record held before.
C10_CreateStartsEmpty ==
    lastResult = "Created" =>
        /\ tournamentState.isActive
        /\ tournamentState.participants = <<>>
        /\ tournamentState.bracket = <<>>
        /\ tournamentState.messageId # NoMessage

\* a create has succeeded after an earlier tournament announced its champion
C10_Witness ==
    /\ lastResult = "Created"
    /\ champion # NULL
    /\ tournamentState.participants = <<>>

\* a create handler ends on its error path (the fetch, the send or the
\* reaction threw)
FailedCreateStep ==
    \E h \in BagToSet(inflight) : CreateAfterFetch(h, FALSE) \/ CreateAfterPost(h, FALSE)

\* C11: a create request that ends on its error path leaves the record as it
\* was before the request.  With events applied one at a time the request was
\* accepted on an inactive record, so the record is inactive after the
\* failure, and it names no tournament unless an earlier one was completed.
C11_AllOrNothing ==
    [][FailedCreateStep =>
          /\ ~tournamentState'.isActive
          /\ tournamentState'.details = NULL \/ champion # NULL]_vars

\* a join or an admin's /updatewinner arrives while no tournament is active
InactiveJoinStep ==
    ~tournamentState.isActive /\ \E u \in Users, msg \in MessageIds : ReactionAdd(u, msg)

InactiveDeclareStep ==
    ~tournamentState.isActive /\ \E u \in Users : UpdateWinner(u, TRUE)

HoldsOpenMatch(b, u) ==
    \E i \in 1..Len(b) : b[i].winner = NULL /\ UserName(u) \in {b[i].p1, b[i].p2}

\* u is in no unresolved match of the round: u never joined, or no unresolved
\* match has the name of u in a slot
InNoOpenMatch(ts, u) ==
    \/ u \notin RosterIds(ts.participants)
    \/ ~HoldsOpenMatch(ts.bracket, u)

\* an admin's /updatewinner for a player without an unresolved match arrives
\* while a round is under way
NoMatchDeclareStep ==
    /\ tournamentState.isActive
    /\ Len(tournamentState.bracket) > 0
    /\ \E u \in Users : InNoOpenMatch(tournamentState, u) /\ UpdateWinner(u, TRUE)

\* C13: while a round is under way, a declare-winner for a player who is in
\* no unresolved match of the round is answered NoActiveMatchForPlayer and
\* leaves the round, the roster and the status as they were.
C13_NoActiveMatch ==
    [][NoMatchDeclareStep =>
          /\ lastResult' = "NoActiveMatchForPlayer"
          /\ tournamentState' = tournamentState
          /\ inflight' = inflight
          /\ round' = round]_vars

\* C14: an admin's reset, in whatever status it arrives, leaves no active
\* tournament, an empty roster and an empty bracket.
C14_ResetDiscards ==
    [][EndTournament(TRUE) =>
          /\ ~tournamentState'.isActive
          /\ tournamentState'.participants = <<>>
          /\ tournamentState'.bracket = <<>>]_vars

\* What every record has that the handlers produce when each event is applied
\* whole before the next is delivered: no id twice in the roster, every slot
\* of the round a roster member's name (or a placeholder), every recorded
\* winner one of the two names of its match.
AtomicRecord(ts) ==
    /\ Cardinality(RosterIds(ts.participants)) = Len(ts.participants)
    /\ Range(Slots(ts.bracket)) \subseteq RosterNames(ts.participants) \cup {BYE, CHAMPION}
    /\ \A i \in 1..Len(ts.bracket) :
          ts.bracket[i].winner \in {NULL, ts.bracket[i].p1, ts.bracket[i].p2}

\* C15: the record reached when the handlers interleave at their awaits is a
\* record that applying the events one at a time, each whole, also reaches.
C15_InterleavingsAtomic == AtomicRecord(tournamentState)

\* two /updatewinner handlers are suspended at their replies and the round,
\* of two matches or more, has no unresolved match left
BothRecorded ==
    /\ BagCardinality([h \in Suspended("decl_reply") |-> inflight[h]]) >= 2
    /\ Len(tournamentState.bracket) >= 2
    /\ AllResolved(tournamentState.bracket)

\* C16: when two overlapping /updatewinner handlers have together resolved the
\* last matches of a round, the handler that resumes first produces the next
\* round; a handler that resumes on a round with an unresolved match (the one
\* just produced) changes nothing and announces nobody; and no more rounds are
\* ever generated than a bracket of n0 contestants has.
C16_RegeneratedOnce ==
    /\ [][(BothRecorded /\ DeclaredStep) => round' = round + 1]_vars
    /\ [][(DeclaredStep /\ ~AllResolved(tournamentState.bracket)) =>
             /\ tournamentState' = tournamentState
             /\ round' = round
             /\ Announcing(inflight') = Announcing(inflight)]_vars
    /\ [](n0 >= 2 => round <= CeilLog2(n0))

\* the next round exists and the second of the two handlers has yet to resume
C16_Witness ==
    /\ n0 = 3
    /\ round = 2
    /\ Suspended("decl_reply") # {}
    /\ Len(tournamentState.bracket) = 1
    /\ tournamentState.bracket[1].winner = NULL

\* the contestants the next round would be built from once the round of ts
\* is complete, as a set; none while a match is unresolved
NextRoundInput(ts) ==
    IF AllResolved(ts.bracket) THEN Range(RoundWinners(variant, ts)) ELSE {}

\* u is a roster member whose name is in a slot of match i
NamedIn(ts, i, u) ==
    /\ u \in RosterIds(ts.participants)
    /\ UserName(u) \in {ts.bracket[i].p1, ts.bracket[i].p2}

\* a round of two matches, none resolved yet
TwoOpenMatches(ts) ==
    /\ ts.isActive
    /\ Len(ts.bracket) = 2
    /\ ts.bracket[1].winner = NULL
    /\ ts.bracket[2].winner = NULL

\* C17: in a round of two unresolved matches, for every choice of a winner u1
\* of match 1 and a winner u2 of match 2, declaring u1 then u2 and declaring
\* u2 then u1 complete the round with the same contestants for the next one.
C17_OrderIndependent ==
    TwoOpenMatches(tournamentState) =>
        \A u1, u2 \in RosterIds(tournamentState.participants) :
            (u1 # u2 /\ NamedIn(tournamentState, 1, u1) /\ NamedIn(tournamentState, 2, u2)) =>
                LET ab == RecordWinner(RecordWinner(tournamentState, UserName(u1)), UserName(u2))
                    ba == RecordWinner(RecordWinner(tournamentState, UserName(u2)), UserName(u1))
                IN /\ AllResolved(ab.bracket)
                   /\ AllResolved(ba.bracket)
                   /\ NextRoundInput(ab) = NextRoundInput(ba)

\* what can still move a tournament towards its end: a reset the bot
\* accepts, a match a declare-winner can still record, or a registration
\* post joins can still arrive on while no round exists
CanStillEnd ==
    \/ ENABLED (EndTournament(TRUE) /\ ~tournamentState'.isActive)
    \/ \E i \in 1..Len(tournamentState.bracket) : tournamentState.bracket[i].winner = NULL
    \/ Len(tournamentState.bracket) = 0 /\ tournamentState.messageId # NoMessage

\* C18: no active tournament is stuck: when no handler is running, an active
\* tournament can be reset, or has a match left to resolve, or can still
\* take the joins that start its first round.
C18_NeverStuck == (Quiet /\ tournamentState.isActive) => CanStillEnd

\* C19: once the handlers of the joins have finished, an active tournament
\* with two or more players in its roster has a current round.
C19_FirstRoundOnJoin ==
    (Quiet /\ tournamentState.isActive /\ Len(tournamentState.participants) >= 2) =>
        Len(tournamentState.bracket) > 0

\* a handler is inside updateTournamentPost past its early return, or at an
\* await of /updatewinner on the way to its updateTournamentPost call
NotifyPending(bag) ==
    \E h \in BagToSet(bag) : h.pc \in {"post_fetch", "decl_reply", "decl_followup"}

\* the successful steps of join, declare-winner and reset that change the
\* roster, the round or the champion, or carry such a change to the post
SnapshotStep ==
    \/ /\ \E h \in Suspended("join_fetch") : JoinAfterFetch(h, TRUE)
       /\ tournamentState'.participants # tournamentState.participants
    \/ /\ EndTournament(TRUE)
       /\ tournamentState.isActive
       /\ tournamentState.messageId # NoMessage
    \/ /\ \E u \in Users : UpdateWinner(u, TRUE)
       /\ tournamentState' # tournamentState
    \/ DeclaredStep
    \/ \E h \in Suspended("decl_followup") : DeclareAfterFollowUp(h, TRUE)

\* C20: every successful join, declare-winner or reset that changes the
\* roster, the round or the champion leads into an updateTournamentPost call
\* that passes its early return.
C20_SnapshotNotified == [][SnapshotStep => NotifyPending(inflight')]_vars

\* C21: every match of the current round that has a winner has it in one of
\* its two slots.
C21_WinnerInMatch ==
    \A i \in 1..Len(tournamentState.bracket) :
        tournamentState.bracket[i].winner # NULL =>
            tournamentState.bracket[i].winner \in
                {tournamentState.bracket[i].p1, tournamentState.bracket[i].p2}

\* a round with a recorded winner next to an unresolved match, handlers running
C21_Witness ==
    /\ ~Quiet
    /\ \E i, j \in 1..Len(tournamentState.bracket) :
          /\ tournamentState.bracket[i].winner \notin {NULL, BYE}
          /\ tournamentState.bracket[i].p2 # CHAMPION
          /\ tournamentState.bracket[j].winner = NULL

\* the list a round of n/2 matches was folded from: p1 of the matches in
\* order, then p2 of the matches in reverse order
Unfolded(r, n) ==
    [k \in 1..n |-> IF 2 * k <= n THEN r[k].p1 ELSE r[n + 1 - k].p2]

\* C22: for a list of 2 or more contestants the round is, for some order of
\* the contestants padded on the right with BYE to n = ceil2(len), the
\* matches k = 1..n/2 with matchId k, p1 the k-th and p2 the (n+1-k)-th
\* entry: unfolded, the round is the contestants in some order, then BYE.
C22_PairingFormula ==
    (GpReturned /\ Len(gpPlayers) >= 2) =>
        LET n == Ceil2(Len(gpPlayers))
            r == gpResult[1]
            len == Len(gpPlayers)
        IN /\ 2 * Len(r) = n
           /\ \A k \in 1..Len(r) : r[k].matchId = k
           /\ SeqBag(SubSeq(Unfolded(r, n), 1, len)) =
                  SeqBag([k \in 1..len |-> gpPlayers[k].username])
           /\ \A k \in (len + 1)..n : Unfolded(r, n)[k] = BYE

\* three contestants paired: the first match holds the BYE, the second none
C22_Witness ==
    /\ GpReturned
    /\ Len(gpPlayers) = 3
    /\ Len(gpResult[1]) = 2
    /\ gpResult[1][1].p2 = BYE
    /\ gpResult[1][2].matchId = 2
    /\ BYE \notin {gpResult[1][2].p1, gpResult[1][2].p2}

\* C23: for a list of fewer than 2 contestants generatePairings returns no
\* round: no match at all, so none that pairs the single contestant with
\* themself.
C23_InsufficientContestants ==
    (GpReturned /\ Len(gpPlayers) < 2) => gpResult[1] = <<>>

\* an admin's /updatewinner names a user who is not in the roster
OutsiderDeclareStep ==
    \E u \in Users :
        /\ u \notin RosterIds(tournamentState.participants)
        /\ UpdateWinner(u, TRUE)

\* C24: players are told apart by id.  A declare-winner for a user who is not
\* in the roster records nothing, whatever that user is called; and the
\* contestants collected from a completed round are distinct players, one per
\* winner, also when two roster members have the same username.
C24_IdentityById ==
    /\ [][OutsiderDeclareStep =>
             tournamentState'.bracket = tournamentState.bracket]_vars
    /\ [][(DeclaredStep /\ Len(tournamentState.bracket) > 0
                        /\ AllResolved(tournamentState.bracket)) =>
             Cardinality(RosterIds(RoundWinners(variant, tournamentState))) =
                 Len(RoundWinners(variant, tournamentState))]_vars

\* a step in which a handler calls generatePairings
GeneratingStep == round' = round + 1

\* C25: a call of generatePairings leaves the roster as it was (the members
\* in join order, at most the joining player appended by the handler itself,
\* never a BYE) and changes no field of the record; the handler stores the
\* result in bracket.
C25_GeneratePure ==
    [][GeneratingStep =>
          /\ \/ tournamentState'.participants = tournamentState.participants
             \/ \E u \in Users :
                   /\ u \notin RosterIds(tournamentState.participants)
                   /\ tournamentState'.participants =
                          Append(tournamentState.participants, Player(u))
          /\ BYE \notin RosterNames(tournamentState'.participants)
          /\ tournamentState'.isActive = tournamentState.isActive
          /\ tournamentState'.channelId = tournamentState.channelId
          /\ tournamentState'.messageId = tournamentState.messageId
          /\ tournamentState'.details = tournamentState.details]_vars

\* a padded round was generated from three players and the roster still
\* holds exactly the three, in join order
C25_Witness ==
    /\ round = 1
    /\ n0 = 3
    /\ ByeSlots(tournamentState.bracket) = 1
    /\ Len(tournamentState.participants) = 3
    /\ tournamentState.participants[1].id = 2
    /\ tournamentState.participants[3].id = 1

\* a join handler resumes from its user fetch while a round exists
LateJoinStep ==
    /\ Len(tournamentState.bracket) > 0
    /\ \E h \in Suspended("join_fetch"), ok \in BOOLEAN : JoinAfterFetch(h, ok)

\* C26: once the first round has been generated a join no longer changes the
\* roster, so while the first round is played every roster member's name is
\* in one of its slots.
C26_RosterFrozen ==
    /\ [][LateJoinStep =>
             tournamentState'.participants = tournamentState.participants]_vars
    /\ []((tournamentState.isActive /\ round = 1) =>
             RosterNames(tournamentState.participants) \subseteq
                 Range(Slots(tournamentState.bracket)))

\* C27: under the pre-resolving policy a generated match has a winner
\* exactly when one of its slots is BYE, the winner is then the player in
\* the other slot, and a match between two players is generated unresolved.
C27_ByePreResolved ==
    (GpReturned /\ variant = "eager") =>
        \A k \in 1..Len(gpResult[1]) :
            LET m == gpResult[1][k]
            IN /\ (m.winner # NULL) <=> (BYE \in {m.p1, m.p2})
               /\ m.winner # NULL => m.winner \in ({m.p1, m.p2} \ {BYE})

\* five players: three advance on a BYE, one match is left to play
C27_Witness ==
    /\ GpReturned
    /\ variant = "eager"
    /\ Len(gpPlayers) = 5
    /\ Cardinality({k \in 1..Len(gpResult[1]) : gpResult[1][k].winner # NULL}) = 3
    /\ gpResult[1][4].winner = NULL

\* the state update of a create request
CreateUpdateStep == \E h \in Suspended("create_fetch") : CreateAfterFetch(h, TRUE)

\* no tournament: inactive, with an empty roster and an empty bracket
Discarded(ts) == ~ts.isActive /\ ts.participants = <<>> /\ ts.bracket = <<>>

\* C28: once a tournament has been discarded, the roster and the bracket stay
\* empty and isActive stays false until the state update of the next create,
\* whichever handlers of the discarded tournament resume in between.
C28_NoStaleMutation ==
    [][(Discarded(tournamentState) /\ ~CreateUpdateStep) => Discarded(tournamentState')]_vars

\* a reaction of u on message msg passes the guards of the join handler
JoinAccepted(u, msg) == ReactionAdd(u, msg) /\ inflight' # inflight

\* C29: a reaction passes the guards of the join handler only if it is on the
\* registration message of the active tournament: while a create request has
\* made its tournament active and is still posting the message (whose id it
\* will be given), no reaction on another message is accepted.
C29_JoinOnCurrentPost ==
    [][\A u \in Users, msg \in MessageIds :
          JoinAccepted(u, msg) => \A h \in Suspended("create_post") : h.user = msg]_vars

\* C30: a round generated from 2 or more contestants has a match between two
\* players, generated without a winner: also under the pre-resolving policy
\* a fresh round is never complete before a declare-winner.
C30_RealMatchExists ==
    (GpReturned /\ Len(gpPlayers) >= 2) =>
        \E k \in 1..Len(gpResult[1]) :
            /\ BYE \notin {gpResult[1][k].p1, gpResult[1][k].p2}
            /\ gpResult[1][k].winner = NULL

\* three players under the pre-resolving policy: one advances on the BYE,
\* the match of the other two is open
C30_Witness ==
    /\ GpReturned
    /\ variant = "eager"
    /\ Len(gpPlayers) = 3
    /\ gpResult[1][1].winner # NULL
    /\ gpResult[1][2].winner = NULL
    /\ ~AllResolved(gpResult[1])

\* the same round before and after a step: the same matches in the same slots
SameMatches(b, c) ==
    /\ Len(b) = Len(c)
    /\ \A i \in 1..Len(b) : b[i].p1 = c[i].p1 /\ b[i].p2 = c[i].p2

\* the usernames in the slots of the resolved matches of b
ResolvedNames(b) ==
    UNION {{b[i].p1, b[i].p2} : i \in {k \in 1..Len(b) : b[k].winner # NULL}}
        \ {BYE, CHAMPION}

\* C31: while a round is the current round a recorded winner is neither
\* changed nor cleared, and a declare-winner for an occupant of a resolved
\* match finds no match to record in (it is rejected): no unresolved match
\* answers to the name of a player whose match is resolved.
C31_WinnerImmutable ==
    /\ [][SameMatches(tournamentState.bracket, tournamentState'.bracket) =>
             \A i \in 1..Len(tournamentState.bracket) :
                 tournamentState.bracket[i].winner # NULL =>
                     tournamentState'.bracket[i].winner = tournamentState.bracket[i].winner]_vars
    /\ [](tournamentState.isActive =>
             \A name \in ResolvedNames(tournamentState.bracket) :
                 FirstOpen(tournamentState.bracket, name) = 0)

\* C32: in a round generated from 2 or more contestants every entry of the
\* padded list is in exactly one slot, p1 of every match is a player, and so
\* no match has BYE in both slots.
C32_SlotsUsedOnce ==
    (GpReturned /\ Len(gpPlayers) >= 2) =>
        LET r == gpResult[1]
            n == 2 * Len(r)
        IN /\ Len(Slots(r)) = Ceil2(Len(gpPlayers))
           /\ \A x \in RosterNames(gpPlayers) :
                 Cardinality({k \in 1..n : Slots(r)[k] = x}) =
                     Cardinality({k \in 1..Len(gpPlayers) : gpPlayers[k].username = x})
           /\ \A k \in 1..Len(r) : r[k].p1 # BYE
           /\ \A k \in 1..Len(r) : ~(r[k].p1 = BYE /\ r[k].p2 = BYE)

\* five players: the first three matches have the BYE in p2, the fourth none
C32_Witness ==
    /\ GpReturned
    /\ Len(gpPlayers) = 5
    /\ \A k \in 1..3 : gpResult[1][k].p2 = BYE /\ gpResult[1][k].p1 # BYE
    /\ gpResult[1][4].p2 # BYE

\* C33: whenever the bracket is not empty the roster holds at least 2 players
\* and every slot of the bracket is BYE or the username of a roster member.
C33_BracketWithinRoster ==
    Len(tournamentState.bracket) > 0 =>
        /\ Len(tournamentState.participants) >= 2
        /\ Range(Slots(tournamentState.bracket)) \subseteq
               RosterNames(tournamentState.participants) \cup {BYE}

\* a command issued by a member without Administrator permission
NonAdminStep == EndTournament(FALSE) \/ \E u \in Users : UpdateWinner(u, FALSE)

\* C34: an /endtournament or /updatewinner from a member without
\* Administrator permission starts no handler and leaves the whole record as
\* it was.
C34_AdminOnly ==
    [][NonAdminStep =>
          /\ tournamentState' = tournamentState
          /\ inflight' = inflight]_vars

====
